---- MODULE Spec2Model ----
(***************************************************************************)
(* Model of the physical-ai-book backend: the paragraph chunker and the    *)
(* batch indexing driver (index_book.py), the RAG service                  *)
(* (app/services/rag_service.py) and the chat endpoint                     *)
(* (app/routers/chat.py).                                                  *)
(*                                                                         *)
(* A Python str is a sequence of one-character strings.                    *)
(***************************************************************************)
EXTENDS Integers, Sequences, FiniteSets, TLC

VARIABLES
    \* split_content: its two arguments, its return value, and whether it ran
    text, max_length, chunks, split_pc,
    \* the docs folder: whether it exists, and the files rglob("*.md") lists
    docs_exists, md_files,
    \* one run of index_markdown_files: where it is, its locals md_file (as an
    \* index into md_files), chunks, i and doc_id, and what it has printed
    idx_pc, file_i, doc_chunks, chunk_i, doc_id, stdout,
    \* the Qdrant collection (point id -> payload) and the points it accepted
    \* from the current run, in order
    index_store, upserts,
    \* the chat endpoint: where the request is, the request's message and
    \* context, the module's rag_service singleton, the points of the collection
    chat_pc, message, context, rag_service, collection,
    \* generate_answer: relevant_docs, the limit search was called with, the
    \* calls made to the embedder, to the vector index and to the chat model, the
    \* exception raised, the returned dict
    relevant_docs, search_limit, calls, exc, result,
    \* what logger.error recorded for the request, and the HTTP response
    logged, response,
    \* the Qdrant server's collections (name -> configuration and point count);
    \* per process constructing a RAGService: where it is, the names it listed,
    \* the create calls it issued, what _ensure_collection logged
    server, ens_pc, collection_names, create_calls, ens_logged

splitVars == <<text, max_length, chunks, split_pc>>
indexVars == <<docs_exists, md_files, idx_pc, file_i, doc_chunks, chunk_i,
               doc_id, stdout, index_store, upserts>>
chatVars == <<chat_pc, message, context, rag_service, collection,
              relevant_docs, search_limit, calls, exc, result, logged, response>>
ensureVars == <<server, ens_pc, collection_names, create_calls, ens_logged>>
vars == <<text, max_length, chunks, split_pc,
          docs_exists, md_files, idx_pc, file_i, doc_chunks, chunk_i,
          doc_id, stdout, index_store, upserts,
          chat_pc, message, context, rag_service, collection,
          relevant_docs, search_limit, calls, exc, result, logged, response,
          server, ens_pc, collection_names, create_calls, ens_logged>>

----------------------------------------------------------------------------
(* Strings *)

NL == "\n"
SP == " "
Whitespace == {NL, SP}
Alphabet == {"a", SP, NL}

\* the paragraph separator of text.split('\n\n') and of para + "\n\n"
ParaSep == <<NL, NL>>

MaxTextLen == 7

\* the texts of at most n characters of S
SeqsUpTo(S, n) == UNION {[1..k -> S] : k \in 0..n}

MaxOf(S) == CHOOSE x \in S : \A y \in S : x >= y

\* str.strip(): drop leading and trailing whitespace
strip(s) ==
    IF \A i \in 1..Len(s) : s[i] \in Whitespace THEN <<>>
    ELSE LET n == Len(s)
             first == CHOOSE i \in 1..n :
                          /\ s[i] \notin Whitespace
                          /\ \A j \in 1..(i - 1) : s[j] \in Whitespace
             dropped == CHOOSE d \in 0..(n - 1) :
                          /\ s[n - d] \notin Whitespace
                          /\ \A j \in (n - d + 1)..n : s[j] \in Whitespace
         IN  SubSeq(s, first, n - dropped)

\* whether "\n\n" starts at position j of s
SepAt(s, j) == s[j] = NL /\ s[j + 1] = NL

\* index of the leftmost "\n\n" in s at or after position i, 0 when there is none
FindSep(s, i) ==
    IF \A j \in i..(Len(s) - 1) : ~SepAt(s, j) THEN 0
    ELSE CHOOSE j \in i..(Len(s) - 1) :
             /\ SepAt(s, j)
             /\ \A k \in i..(j - 1) : ~SepAt(s, k)

\* str.split('\n\n'): non-overlapping separators, scanned left to right;
\* always at least one piece
RECURSIVE SplitFrom(_, _)
SplitFrom(s, i) ==
    LET j == FindSep(s, i)
    IN  IF j = 0 THEN <<SubSeq(s, i, Len(s))>>
        ELSE <<SubSeq(s, i, j - 1)>> \o SplitFrom(s, j + 2)

SplitParas(s) == SplitFrom(s, 1)

----------------------------------------------------------------------------
(* index_book.split_content *)

\* faulty variant of Fits: the length of the running chunk is forgotten
FitsIgnoringChunk(current_chunk, para, maxlen) == Len(para) < maxlen

\* line 72: the paragraph still fits into the running chunk
Fits(current_chunk, para, maxlen) == Len(current_chunk) + Len(para) < maxlen

\* faulty variant of Flush: the new running chunk starts empty
FlushDroppingPara(st, para) ==
    [chunks |-> IF st.current_chunk # <<>>
                THEN Append(st.chunks, strip(st.current_chunk))
                ELSE st.chunks,
     current_chunk |-> <<>>]

\* lines 75-77: flush the running chunk and start a new one with para
Flush(st, para) ==
    [chunks |-> IF st.current_chunk # <<>>
                THEN Append(st.chunks, strip(st.current_chunk))
                ELSE st.chunks,
     current_chunk |-> para \o ParaSep]

\* lines 71-77: one pass of the loop body
LoopBody(st, para, maxlen) ==
    IF Fits(st.current_chunk, para, maxlen)
    THEN [st EXCEPT !.current_chunk = @ \o para \o ParaSep]
    ELSE Flush(st, para)

\* lines 71-77: the loop over the paragraphs, from the k-th on
RECURSIVE SplitLoop(_, _, _, _)
SplitLoop(st, paragraphs, k, maxlen) ==
    IF k > Len(paragraphs) THEN st
    ELSE SplitLoop(LoopBody(st, paragraphs[k], maxlen), paragraphs, k + 1, maxlen)

\* lines 63-82; line 82 returns [text] when no chunk was made
split_content(t, maxlen) ==
    LET paragraphs == SplitParas(t)
        st == SplitLoop([chunks |-> <<>>, current_chunk |-> <<>>],
                        paragraphs, 1, maxlen)
        out == IF st.current_chunk # <<>>
               THEN Append(st.chunks, strip(st.current_chunk))
               ELSE st.chunks
    IN  IF out # <<>> THEN out ELSE <<t>>

\* a call split_content(text, max_length)
SplitInit ==
    /\ text \in SeqsUpTo(Alphabet, MaxTextLen)
    /\ max_length \in 0..(MaxTextLen + 1)
    /\ chunks = <<>>
    /\ split_pc = "call"

SplitIdle ==
    /\ text = <<>>
    /\ max_length = 0
    /\ chunks = <<>>
    /\ split_pc = "idle"

\* the call returns
SplitContent ==
    /\ split_pc = "call"
    /\ chunks' = split_content(text, max_length)
    /\ split_pc' = "returned"
    /\ UNCHANGED <<text, max_length>>
    /\ UNCHANGED <<indexVars, chatVars, ensureVars>>

SplitNext == SplitContent

----------------------------------------------------------------------------
(* Properties of split_content *)

paragraphs_of_text == SplitParas(text)

\* The ways of cutting paragraphs 1..n into consecutive groups: a cut is the
\* set of the last paragraph of every group.
CutsOf(n) == {E \in SUBSET (1..n) : n \in E}

GroupFirst(E, e) ==
    LET before == {x \in E : x < e}
    IN  IF before = {} THEN 1 ELSE MaxOf(before) + 1

\* the e-th smallest end of the cut comes k-th
RankIn(E, e) == Cardinality({x \in E : x <= e})

RECURSIVE JoinParas(_, _, _)
JoinParas(P, a, b) ==
    IF a > b THEN <<>> ELSE P[a] \o ParaSep \o JoinParas(P, a + 1, b)

\* chunks is the cut E of the paragraphs P: the k-th chunk is the k-th group,
\* its paragraphs in order and separated by "\n\n", trimmed
IsChunkingBy(P, E, cs) ==
    /\ Len(cs) = Cardinality(E)
    /\ \A e \in E : cs[RankIn(E, e)] = strip(JoinParas(P, GroupFirst(E, e), e))

NonWhitespace(s) == SelectSeq(s, LAMBDA c : c \notin Whitespace)

RECURSIVE JoinChunks(_, _)
JoinChunks(cs, k) ==
    IF k > Len(cs) THEN <<>>
    ELSE IF k = Len(cs) THEN cs[k]
    ELSE cs[k] \o ParaSep \o JoinChunks(cs, k + 1)

\* C4: every chunk is at most max_length long, unless it is made of exactly one
\* paragraph and that paragraph alone is longer than max_length.
C4_ChunkLengthBound ==
    split_pc = "returned" =>
        \E E \in CutsOf(Len(paragraphs_of_text)) :
            /\ IsChunkingBy(paragraphs_of_text, E, chunks)
            /\ \A e \in E :
                \/ Len(chunks[RankIn(E, e)]) <= max_length
                \/ /\ GroupFirst(E, e) = e
                   /\ Len(paragraphs_of_text[e]) > max_length

\* an oversized paragraph was emitted as a chunk of its own, next to a chunk
\* within the bound
C4_Witness ==
    /\ split_pc = "returned"
    /\ Len(chunks) = 2
    /\ Len(chunks[1]) > max_length
    /\ Len(chunks[2]) >= 1
    /\ Len(chunks[2]) <= max_length

\* C5: a text no longer than max_length comes back as one chunk, the trimmed
\* text.
C5_WholeTextOneChunk ==
    (split_pc = "returned" /\ Len(text) <= max_length) =>
        chunks = <<strip(text)>>

\* C6: the chunks are the paragraphs of the text cut into consecutive groups,
\* every paragraph in exactly one chunk and in its original order, and the
\* chunks joined by the separator hold the text's characters in order, up to
\* whitespace.
C6_ChunksPartitionParagraphs ==
    split_pc = "returned" =>
        /\ \E E \in CutsOf(Len(paragraphs_of_text)) :
               IsChunkingBy(paragraphs_of_text, E, chunks)
        /\ NonWhitespace(JoinChunks(chunks, 1)) = NonWhitespace(text)

\* three paragraphs, the first two merged into one chunk and the third alone
C6_Witness ==
    /\ split_pc = "returned"
    /\ Len(paragraphs_of_text) = 3
    /\ Len(chunks) = 2
    /\ chunks[1] = <<"a", NL, NL, "a">>
    /\ chunks[2] = <<"a">>

----------------------------------------------------------------------------
(* rag_service.RAGService.add_document and index_book.index_markdown_files *)

FileLimit == 2

Rep(c, n) == [k \in 1..n |-> c]

\* The documents a docs folder may hold: a near-empty one (a heading and
\* trailing blank lines), a one-paragraph one, and one of two long paragraphs.
DocKinds == {"stub", "page", "chapter"}

FileContent(kind) ==
    CASE kind = "stub" -> <<"#", SP, "a">> \o Rep(NL, 57)
      [] kind = "page" -> Rep("a", 60)
      [] kind = "chapter" -> Rep("a", 500) \o ParaSep \o Rep("b", 500)

MinContentLength == 50
ChunkMaxLength == 1000

\* faulty variant of IsSkipped: the content is not trimmed
SkipsUntrimmed(content) == Len(content) < MinContentLength

\* line 36: the file is skipped
IsSkipped(content) == Len(strip(content)) < MinContentLength

\* line 43: the chunks of the file at md_files[f]
ChunksOfFile(f) == split_content(FileContent(md_files[f]), ChunkMaxLength)

\* line 46: the label of chunk i (0-based) of the file at md_files[f]; part 0
\* stands for the bare path
ChunkSource(f, i, n) == [path |-> f, part |-> IF n > 1 THEN i + 1 ELSE 0]

\* line 27: doc_id = 1, whatever the collection holds
FirstDocId(store) == 1

\* faulty variant of Upsert: a point that exists keeps its payload
UpsertKeepingOld(store, id, payload) ==
    [k \in DOMAIN store \cup {id} |->
        IF k \in DOMAIN store THEN store[k] ELSE payload]

\* qdrant upsert of one point (rag_service.py lines 66-78): insert, or replace
\* the payload stored at the id
Upsert(store, id, payload) ==
    [k \in DOMAIN store \cup {id} |-> IF k = id THEN payload ELSE store[k]]

\* what add_document can do: return, or raise after embed_text or upsert failed
AddDocumentOutcomes == {"ok", "embedding failed", "upsert failed"}

NoStore == [k \in {} |-> 0]

IndexInit ==
    /\ docs_exists \in BOOLEAN
    /\ md_files \in SeqsUpTo(DocKinds, FileLimit)
    /\ (~docs_exists => md_files = <<>>)
    /\ idx_pc = "main"
    /\ file_i = 0
    /\ doc_chunks = <<>>
    /\ chunk_i = 0
    /\ doc_id = 0
    /\ stdout = <<>>
    /\ index_store = NoStore
    /\ upserts = <<>>

IndexIdle ==
    /\ docs_exists = FALSE
    /\ md_files = <<>>
    /\ idx_pc = "idle"
    /\ file_i = 0
    /\ doc_chunks = <<>>
    /\ chunk_i = 0
    /\ doc_id = 0
    /\ stdout = <<>>
    /\ index_store = NoStore
    /\ upserts = <<>>

\* lines 10-14: the docs folder is missing
NoDocsFolder ==
    /\ idx_pc = "main"
    /\ ~docs_exists
    /\ stdout' = Append(stdout, [line |-> "docs folder not found"])
    /\ idx_pc' = "returned"
    /\ UNCHANGED <<docs_exists, md_files, file_i, doc_chunks, chunk_i, doc_id,
                   index_store, upserts>>
    /\ UNCHANGED <<splitVars, chatVars, ensureVars>>

\* line 16: RAGService() raises; nothing in index_markdown_files catches it
ServiceFails ==
    /\ idx_pc = "main"
    /\ docs_exists
    /\ idx_pc' = "crashed"
    /\ UNCHANGED <<docs_exists, md_files, file_i, doc_chunks, chunk_i, doc_id,
                   stdout, index_store, upserts>>
    /\ UNCHANGED <<splitVars, chatVars, ensureVars>>

\* lines 16-23: no markdown file
NoMarkdownFiles ==
    /\ idx_pc = "main"
    /\ docs_exists
    /\ md_files = <<>>
    /\ stdout' = Append(stdout, [line |-> "no markdown files"])
    /\ idx_pc' = "returned"
    /\ UNCHANGED <<docs_exists, md_files, file_i, doc_chunks, chunk_i, doc_id,
                   index_store, upserts>>
    /\ UNCHANGED <<splitVars, chatVars, ensureVars>>

\* lines 16-29: the run enters the loop over the files
StartLoop ==
    /\ idx_pc = "main"
    /\ docs_exists
    /\ md_files # <<>>
    /\ stdout' = Append(stdout, [line |-> "found", n |-> Len(md_files)])
    /\ doc_id' = FirstDocId(index_store)
    /\ file_i' = 1
    /\ idx_pc' = "file"
    /\ UNCHANGED <<docs_exists, md_files, doc_chunks, chunk_i, index_store,
                   upserts>>
    /\ UNCHANGED <<splitVars, chatVars, ensureVars>>

\* lines 30-33, 58-59: reading the file raises; the handler prints and the loop
\* goes on
ReadFails ==
    /\ idx_pc = "file"
    /\ file_i <= Len(md_files)
    /\ stdout' = Append(stdout, [line |-> "error", file |-> file_i,
                                 e |-> "read failed"])
    /\ file_i' = file_i + 1
    /\ UNCHANGED <<docs_exists, md_files, idx_pc, doc_chunks, chunk_i, doc_id,
                   index_store, upserts>>
    /\ UNCHANGED <<splitVars, chatVars, ensureVars>>

\* lines 30-37: a file whose trimmed content is too short is passed over
SkipFile ==
    /\ idx_pc = "file"
    /\ file_i <= Len(md_files)
    /\ IsSkipped(FileContent(md_files[file_i]))
    /\ file_i' = file_i + 1
    /\ UNCHANGED <<docs_exists, md_files, idx_pc, doc_chunks, chunk_i, doc_id,
                   stdout, index_store, upserts>>
    /\ UNCHANGED <<splitVars, chatVars, ensureVars>>

\* lines 30-45: the file is read and chunked
ChunkFile ==
    /\ idx_pc = "file"
    /\ file_i <= Len(md_files)
    /\ ~IsSkipped(FileContent(md_files[file_i]))
    /\ doc_chunks' = ChunksOfFile(file_i)
    /\ chunk_i' = 0
    /\ idx_pc' = "chunk"
    /\ UNCHANGED <<docs_exists, md_files, file_i, doc_id, stdout, index_store,
                   upserts>>
    /\ UNCHANGED <<splitVars, chatVars, ensureVars>>

\* lines 45-54: one pass of the loop over the chunks, add_document returning
\* (rag_service.py lines 61-79)
AddChunkOk ==
    /\ idx_pc = "chunk"
    /\ chunk_i < Len(doc_chunks)
    /\ LET chunk_source == ChunkSource(file_i, chunk_i, Len(doc_chunks))
           payload == [text |-> doc_chunks[chunk_i + 1], source |-> chunk_source]
       IN  /\ stdout' = Append(stdout, [line |-> "indexing",
                                        source |-> chunk_source])
           /\ index_store' = Upsert(index_store, doc_id, payload)
           /\ upserts' = Append(upserts, [id |-> doc_id, payload |-> payload])
    /\ doc_id' = doc_id + 1
    /\ chunk_i' = chunk_i + 1
    /\ UNCHANGED <<docs_exists, md_files, idx_pc, file_i, doc_chunks>>
    /\ UNCHANGED <<splitVars, chatVars, ensureVars>>

\* lines 45-53, 58-59: add_document raises (rag_service.py lines 80-82); the
\* exception leaves the loop over the chunks and reaches the file's handler.
\* chunks and i are not read again before lines 43 and 45 assign them anew:
\* they are kept empty outside the loop over the chunks.
AddChunkFails ==
    /\ idx_pc = "chunk"
    /\ chunk_i < Len(doc_chunks)
    /\ \E outcome \in AddDocumentOutcomes \ {"ok"} :
        stdout' = stdout \o
            <<[line |-> "indexing",
               source |-> ChunkSource(file_i, chunk_i, Len(doc_chunks))],
              [line |-> "error", file |-> file_i, e |-> outcome]>>
    /\ file_i' = file_i + 1
    /\ doc_chunks' = <<>>
    /\ chunk_i' = 0
    /\ idx_pc' = "file"
    /\ UNCHANGED <<docs_exists, md_files, doc_id, index_store, upserts>>
    /\ UNCHANGED <<splitVars, chatVars, ensureVars>>

\* line 56: all chunks of the file were added
FileIndexed ==
    /\ idx_pc = "chunk"
    /\ chunk_i = Len(doc_chunks)
    /\ stdout' = Append(stdout, [line |-> "indexed", file |-> file_i])
    /\ file_i' = file_i + 1
    /\ doc_chunks' = <<>>
    /\ chunk_i' = 0
    /\ idx_pc' = "file"
    /\ UNCHANGED <<docs_exists, md_files, doc_id, index_store, upserts>>
    /\ UNCHANGED <<splitVars, chatVars, ensureVars>>

\* line 61: the loop over the files is over
ReportCount ==
    /\ idx_pc = "file"
    /\ file_i > Len(md_files)
    /\ stdout' = Append(stdout, [line |-> "count", n |-> doc_id - 1])
    /\ idx_pc' = "returned"
    /\ UNCHANGED <<docs_exists, md_files, file_i, doc_chunks, chunk_i, doc_id,
                   index_store, upserts>>
    /\ UNCHANGED <<splitVars, chatVars, ensureVars>>

\* lines 84-86: the script is run again, against the same collection
RunAgain ==
    /\ idx_pc \in {"returned", "crashed"}
    /\ idx_pc' = "main"
    /\ file_i' = 0
    /\ doc_id' = 0
    /\ stdout' = <<>>
    /\ upserts' = <<>>
    /\ UNCHANGED <<docs_exists, md_files, doc_chunks, chunk_i, index_store>>
    /\ UNCHANGED <<splitVars, chatVars, ensureVars>>

IndexNext ==
    \/ NoDocsFolder
    \/ ServiceFails
    \/ NoMarkdownFiles
    \/ StartLoop
    \/ ReadFails
    \/ SkipFile
    \/ ChunkFile
    \/ AddChunkOk
    \/ AddChunkFails
    \/ FileIndexed
    \/ ReportCount
    \/ RunAgain

----------------------------------------------------------------------------
(* Properties of index_markdown_files *)

\* the run got past the two early returns
LoopEntered == idx_pc \in {"file", "chunk"} \/ (idx_pc = "returned" /\ doc_id > 0)

LastLine == stdout[Len(stdout)]

\* "Indexing: ..." was printed for this label: add_document was called for it
Attempted(source) ==
    \E k \in 1..Len(stdout) :
        stdout[k].line = "indexing" /\ stdout[k].source = source

ReadFailed(f) ==
    \E k \in 1..Len(stdout) :
        stdout[k] = [line |-> "error", file |-> f, e |-> "read failed"]

TrimmedLength(f) == Len(strip(FileContent(md_files[f])))

ChunkCount(f) == Len(ChunksOfFile(f))

\* C7: a failure on one item does not abort the run: every file is still
\* taken up, after a failed upsert the remaining chunks of the same file are
\* still attempted, and the run ends by printing the count.
C7_FailureIsolatedToItem ==
    (LoopEntered /\ idx_pc = "returned") =>
        /\ LastLine.line = "count"
        /\ \A f \in 1..Len(md_files) :
            \/ TrimmedLength(f) < MinContentLength
            \/ ReadFailed(f)
            \/ \A i \in 0..(ChunkCount(f) - 1) :
                   Attempted(ChunkSource(f, i, ChunkCount(f)))

\* C8: doc_id - 1 counts the add_document calls that returned in this run; the
\* accepted points carry the ids 1, 2, ..., N in the order of the files and of
\* their chunks; a file whose trimmed content is shorter than 50 characters
\* gets no id; the printed count is N.
C8_IdsCountSuccessfulAdds ==
    LoopEntered =>
        /\ doc_id - 1 = Len(upserts)
        /\ \A k \in 1..Len(upserts) :
            /\ upserts[k].id = k
            /\ TrimmedLength(upserts[k].payload.source.path) >= MinContentLength
        /\ \A j, k \in 1..Len(upserts) :
            j < k =>
                LET a == upserts[j].payload.source
                    b == upserts[k].payload.source
                IN  a.path < b.path \/ (a.path = b.path /\ a.part < b.part)
        /\ idx_pc = "returned" => LastLine = [line |-> "count", n |-> Len(upserts)]

\* a run over a near-empty file and a two-chunk file whose second chunk failed
C8_Witness ==
    /\ idx_pc = "returned"
    /\ md_files = <<"stub", "chapter">>
    /\ Len(upserts) = 1
    /\ LastLine = [line |-> "count", n |-> 1]
    /\ \E k \in 1..Len(stdout) :
           stdout[k] = [line |-> "error", file |-> 2, e |-> "upsert failed"]

\* C10: every run starts at id 1 whatever the collection holds; a step changes
\* the record at id i only by an accepted upsert of id i, which stores exactly
\* the new payload; every other record stays as it was, and none disappears.
\* So the record at id i is the one of the latest accepted upsert of id i.
C10_RerunReplacesById ==
    [][ /\ (idx_pc = "main" /\ idx_pc' = "file") => doc_id' = 1
        /\ DOMAIN index_store \subseteq DOMAIN index_store'
        /\ \A i \in DOMAIN index_store' :
            IF Len(upserts') = Len(upserts) + 1 /\ upserts'[Len(upserts')].id = i
            THEN index_store'[i] = upserts'[Len(upserts')].payload
            ELSE i \in DOMAIN index_store /\ index_store'[i] = index_store[i]
      ]_vars

\* after a run that indexed two pages, a second run lost the first page and
\* wrote the second one over id 1; the record at id 2 is the first run's
C10_Witness ==
    /\ idx_pc = "returned"
    /\ md_files = <<"page", "page">>
    /\ Len(upserts) = 1
    /\ DOMAIN index_store = {1, 2}
    /\ index_store[1] = upserts[1].payload
    /\ index_store[1].source.path = 2
    /\ index_store[2].source.path = 2

----------------------------------------------------------------------------
(* rag_service.RAGService.search / generate_answer and routers.chat.chat *)

None == [none |-> TRUE]

\* ChatRequest.message
Messages == {<<>>, <<SP>>, <<"q">>, <<SP, "q", NL>>}

\* ChatRequest.context: Optional[str]
Contexts == {None} \cup {[none |-> FALSE, value |-> v] :
                            v \in {<<>>, <<SP>>, <<"c">>}}

\* the labels of the points a collection may hold
Sources == {"intro.md", "ch1.md (Part 1)", "ch1.md (Part 2)", "ch2.md"}

\* the text stored with a point
PointText(source) == <<"t">>

\* similarity scores, in hundredths
Scores == {30, 80}

SelectedTextScore == 100
NoConfidence == 0
SearchLimit == 3

\* faulty variant of Truthy: if context is not None
IsGiven(ctx) == ~ctx.none

\* line 110: if context
Truthy(ctx) == ~ctx.none /\ ctx.value # <<>>

\* line 111
SelectedText(ctx) ==
    <<[text |-> ctx.value, source |-> "Selected Text",
       score |-> SelectedTextScore]>>

\* lines 116-120
NotFoundAnswer ==
    [answer |-> "I couldn't find relevant information in the textbook to answer your question.",
     sources |-> <<>>,
     confidence |-> NoConfidence]

\* qdrant search (lines 89-102): the min(limit, size) nearest points, best
\* first
SearchHits(points, limit) ==
    LET n == IF Cardinality(points) < limit THEN Cardinality(points) ELSE limit
        hit == {[text |-> PointText(src), source |-> src, score |-> sc] :
                    src \in points, sc \in Scores}
    IN  {h \in [1..n -> hit] :
            /\ \A j, k \in 1..n : j < k => h[j].source # h[k].source
            /\ \A j \in 1..(n - 1) : h[j].score >= h[j + 1].score}

\* faulty variant of OnSearchError: the exception is raised again
SearchReraises(e) == [pc |-> "raised", exc |-> e]

\* lines 103-105: what search does with an exception of embed_text or of the
\* vector index: it returns []
OnSearchError(e) == [pc |-> "retrieved", exc |-> None]

\* faulty variant of ChatErrorDetail: str(e), as index_document does (line 75)
EchoedErrorDetail(e) == e.msg

\* lines 57-62: the detail of the response for an exception of the handler
ChatErrorDetail(e) == "An error occurred processing your request"

NoCalls == [embed |-> 0, index |-> 0, model |-> 0]

ChatInit ==
    /\ chat_pc = "idle"
    /\ message = <<>>
    /\ context = None
    /\ rag_service = "none"
    /\ collection \in SUBSET Sources
    /\ relevant_docs = <<>>
    /\ search_limit = 0
    /\ calls = NoCalls
    /\ exc = None
    /\ result = None
    /\ logged = <<>>
    /\ response = None

ChatIdle ==
    /\ chat_pc = "off"
    /\ message = <<>>
    /\ context = None
    /\ rag_service = "none"
    /\ collection = {}
    /\ relevant_docs = <<>>
    /\ search_limit = 0
    /\ calls = NoCalls
    /\ exc = None
    /\ result = None
    /\ logged = <<>>
    /\ response = None

\* chat.py line 34: a request arrives
ReceiveRequest ==
    /\ chat_pc \in {"idle", "responded"}
    /\ message' \in Messages
    /\ context' \in Contexts
    /\ chat_pc' = "validate"
    /\ relevant_docs' = <<>>
    /\ search_limit' = 0
    /\ calls' = NoCalls
    /\ exc' = None
    /\ result' = None
    /\ logged' = <<>>
    /\ response' = None
    /\ UNCHANGED <<rag_service, collection>>
    /\ UNCHANGED <<splitVars, indexVars, ensureVars>>

\* chat.py lines 37-41, 55-56: the HTTPException of an empty message passes
\* the handler unchanged
RejectEmpty ==
    /\ chat_pc = "validate"
    /\ strip(message) = <<>>
    /\ response' = [status |-> 400, detail |-> "Message cannot be empty"]
    /\ chat_pc' = "responded"
    /\ UNCHANGED <<message, context, rag_service, collection, relevant_docs,
                   search_limit, calls, exc, result, logged>>
    /\ UNCHANGED <<splitVars, indexVars, ensureVars>>

\* chat.py lines 14-19, 43: the service exists or is constructed
GetRagService ==
    /\ chat_pc = "validate"
    /\ strip(message) # <<>>
    /\ rag_service' = "ready"
    /\ chat_pc' = "generate"
    /\ UNCHANGED <<message, context, collection, relevant_docs, search_limit,
                   calls, exc, result, logged, response>>
    /\ UNCHANGED <<splitVars, indexVars, ensureVars>>

\* chat.py lines 17-18, 57-62: constructing the service raises
GetRagServiceFails ==
    /\ chat_pc = "validate"
    /\ strip(message) # <<>>
    /\ rag_service = "none"
    /\ exc' = [none |-> FALSE, msg |-> "cannot load embedding model"]
    /\ chat_pc' = "raised"
    /\ UNCHANGED <<message, context, rag_service, collection, relevant_docs,
                   search_limit, calls, result, logged, response>>
    /\ UNCHANGED <<splitVars, indexVars, ensureVars>>

\* rag_service.py lines 110-111: the given context is the only document
UseContext ==
    /\ chat_pc = "generate"
    /\ Truthy(context)
    /\ relevant_docs' = SelectedText(context)
    /\ chat_pc' = "retrieved"
    /\ UNCHANGED <<message, context, rag_service, collection, search_limit,
                   calls, exc, result, logged, response>>
    /\ UNCHANGED <<splitVars, indexVars, ensureVars>>

\* rag_service.py lines 112-113, 84-87: search(question, limit=3) is entered
CallSearch ==
    /\ chat_pc = "generate"
    /\ ~Truthy(context)
    /\ search_limit' = SearchLimit
    /\ chat_pc' = "embed"
    /\ UNCHANGED <<message, context, rag_service, collection, relevant_docs,
                   calls, exc, result, logged, response>>
    /\ UNCHANGED <<splitVars, indexVars, ensureVars>>

\* rag_service.py lines 87, 52-56: the query is embedded
EmbedQuery ==
    /\ chat_pc = "embed"
    /\ calls' = [calls EXCEPT !.embed = @ + 1]
    /\ chat_pc' = "query"
    /\ UNCHANGED <<message, context, rag_service, collection, relevant_docs,
                   search_limit, exc, result, logged, response>>
    /\ UNCHANGED <<splitVars, indexVars, ensureVars>>

\* rag_service.py lines 57-59, 103-105: embed_text logs and re-raises, search
\* logs and returns []
EmbedQueryFails ==
    /\ chat_pc = "embed"
    /\ calls' = [calls EXCEPT !.embed = @ + 1]
    /\ LET e == [none |-> FALSE, msg |-> "encode failed"]
       IN  /\ chat_pc' = OnSearchError(e).pc
           /\ exc' = OnSearchError(e).exc
           /\ logged' = logged \o <<[at |-> "embed_text", msg |-> e.msg],
                                    [at |-> "search", msg |-> e.msg]>>
    /\ relevant_docs' = <<>>
    /\ UNCHANGED <<message, context, rag_service, collection, search_limit,
                   result, response>>
    /\ UNCHANGED <<splitVars, indexVars, ensureVars>>

\* rag_service.py lines 89-102: the vector index answers
QueryIndex ==
    /\ chat_pc = "query"
    /\ calls' = [calls EXCEPT !.index = @ + 1]
    /\ relevant_docs' \in SearchHits(collection, search_limit)
    /\ chat_pc' = "retrieved"
    /\ UNCHANGED <<message, context, rag_service, collection, search_limit,
                   exc, result, logged, response>>
    /\ UNCHANGED <<splitVars, indexVars, ensureVars>>

\* rag_service.py lines 89-93, 103-105: the vector index raises, search logs
\* and returns []
QueryIndexFails ==
    /\ chat_pc = "query"
    /\ calls' = [calls EXCEPT !.index = @ + 1]
    /\ LET e == [none |-> FALSE, msg |-> "qdrant unreachable"]
       IN  /\ chat_pc' = OnSearchError(e).pc
           /\ exc' = OnSearchError(e).exc
           /\ logged' = Append(logged, [at |-> "search", msg |-> e.msg])
    /\ relevant_docs' = <<>>
    /\ UNCHANGED <<message, context, rag_service, collection, search_limit,
                   result, response>>
    /\ UNCHANGED <<splitVars, indexVars, ensureVars>>

\* rag_service.py lines 115-120
NoRelevantDocs ==
    /\ chat_pc = "retrieved"
    /\ relevant_docs = <<>>
    /\ result' = NotFoundAnswer
    /\ chat_pc' = "returned"
    /\ UNCHANGED <<message, context, rag_service, collection, relevant_docs,
                   search_limit, calls, exc, logged, response>>
    /\ UNCHANGED <<splitVars, indexVars, ensureVars>>

\* rag_service.py lines 122-156: the chat model answers
ModelAnswers ==
    /\ chat_pc = "retrieved"
    /\ relevant_docs # <<>>
    /\ calls' = [calls EXCEPT !.model = @ + 1]
    /\ result' = [answer |-> "generated answer",
                  sources |-> [k \in 1..Len(relevant_docs) |->
                                  relevant_docs[k].source],
                  confidence |-> relevant_docs[1].score]
    /\ chat_pc' = "returned"
    /\ UNCHANGED <<message, context, rag_service, collection, relevant_docs,
                   search_limit, exc, logged, response>>
    /\ UNCHANGED <<splitVars, indexVars, ensureVars>>

\* rag_service.py lines 139-147, 158-160: the chat model call raises;
\* generate_answer logs and re-raises
ModelFails ==
    /\ chat_pc = "retrieved"
    /\ relevant_docs # <<>>
    /\ calls' = [calls EXCEPT !.model = @ + 1]
    /\ exc' = [none |-> FALSE, msg |-> "openai request failed"]
    /\ logged' = Append(logged, [at |-> "generate_answer",
                                 msg |-> "openai request failed"])
    /\ chat_pc' = "raised"
    /\ UNCHANGED <<message, context, rag_service, collection, relevant_docs,
                   search_limit, result, response>>
    /\ UNCHANGED <<splitVars, indexVars, ensureVars>>

\* chat.py lines 49-53
RespondOk ==
    /\ chat_pc = "returned"
    /\ response' = [status |-> 200, body |-> result]
    /\ chat_pc' = "responded"
    /\ UNCHANGED <<message, context, rag_service, collection, relevant_docs,
                   search_limit, calls, exc, result, logged>>
    /\ UNCHANGED <<splitVars, indexVars, ensureVars>>

\* chat.py lines 57-62
RespondError ==
    /\ chat_pc = "raised"
    /\ logged' = Append(logged, [at |-> "chat", msg |-> exc.msg])
    /\ response' = [status |-> 500, detail |-> ChatErrorDetail(exc)]
    /\ chat_pc' = "responded"
    /\ UNCHANGED <<message, context, rag_service, collection, relevant_docs,
                   search_limit, calls, exc, result>>
    /\ UNCHANGED <<splitVars, indexVars, ensureVars>>

ChatNext ==
    \/ ReceiveRequest
    \/ RejectEmpty
    \/ GetRagService
    \/ GetRagServiceFails
    \/ UseContext
    \/ CallSearch
    \/ EmbedQuery
    \/ EmbedQueryFails
    \/ QueryIndex
    \/ QueryIndexFails
    \/ NoRelevantDocs
    \/ ModelAnswers
    \/ ModelFails
    \/ RespondOk
    \/ RespondError

----------------------------------------------------------------------------
(* Properties of generate_answer and of the chat endpoint *)

NonEmptyContext == context # None /\ Len(context.value) > 0

SearchFailed == \E k \in 1..Len(logged) : logged[k].at = "search"

ModelFailed == calls.model > 0 /\ exc # None

\* C1: with a non-empty context nothing is embedded or looked up, the retrieved
\* set is the one "Selected Text" entry with score 1.0, and an answer carries
\* sources ["Selected Text"] and confidence 1.0; with an empty or absent
\* context search is called with limit 3.
C1_ContextBypassesSearch ==
    /\ NonEmptyContext =>
        /\ search_limit = 0 /\ calls.embed = 0 /\ calls.index = 0
        /\ (chat_pc \in {"retrieved", "returned"} \/ calls.model > 0) =>
               relevant_docs = <<[text |-> context.value,
                                  source |-> "Selected Text", score |-> 100]>>
        /\ result # None =>
               /\ result.sources = <<"Selected Text">>
               /\ result.confidence = 100
    /\ ~NonEmptyContext =>
        /\ chat_pc \in {"embed", "query", "retrieved", "returned"} =>
               search_limit = 3
        /\ (result # None \/ calls.model > 0) =>
               search_limit = 3 /\ calls.embed = 1

\* a request with a context was answered from it although the collection
\* holds points
C1_Witness ==
    /\ chat_pc = "responded"
    /\ NonEmptyContext
    /\ collection # {}
    /\ response = [status |-> 200,
                   body |-> [answer |-> "generated answer",
                             sources |-> <<"Selected Text">>,
                             confidence |-> 100]]

\* C2: when retrieval yields nothing, because the index has no hit or because
\* embedding or the index lookup raised, generate_answer raises nothing and
\* returns the fixed answer with no source and confidence 0.0, and the chat
\* model is not called.
C2_EmptyRetrievalIsAnAnswer ==
    LET fixed == [answer |-> "I couldn't find relevant information in the textbook to answer your question.",
                  sources |-> <<>>, confidence |-> 0]
    IN  /\ SearchFailed =>
            /\ chat_pc \in {"retrieved", "returned", "responded"}
            /\ relevant_docs = <<>>
            /\ exc = None
        /\ (relevant_docs = <<>> /\ chat_pc = "retrieved") =>
               calls.model = 0 /\ exc = None
        /\ (relevant_docs = <<>> /\ chat_pc = "returned") =>
               result = fixed /\ calls.model = 0 /\ exc = None
        /\ (relevant_docs = <<>> /\ chat_pc = "responded" /\ search_limit = 3) =>
               /\ response = [status |-> 200, body |-> fixed]
               /\ calls.model = 0

\* the index holds points but the lookup raised, and the request was answered
C2_Witness ==
    /\ chat_pc = "responded"
    /\ collection # {}
    /\ \E k \in 1..Len(logged) :
           logged[k] = [at |-> "search", msg |-> "qdrant unreachable"]
    /\ response.status = 200

\* C3: a failed chat model call leaves no answer: generate_answer raises, and
\* the endpoint answers 500 with the fixed generic detail, which is not the
\* exception's message; status 400 is the empty-message rejection and nothing
\* else.
C3_ModelFailureIsGeneric500 ==
    /\ ModelFailed =>
        /\ relevant_docs # <<>>
        /\ result = None
        /\ chat_pc \in {"raised", "responded"}
    /\ (chat_pc = "responded" /\ exc # None) =>
        /\ response = [status |-> 500,
                       detail |-> "An error occurred processing your request"]
        /\ response.detail # exc.msg
    /\ chat_pc = "responded" =>
        /\ response.status \in {200, 400, 500}
        /\ response.status = 400 <=> strip(message) = <<>>
        /\ response.status = 200 <=> (strip(message) # <<>> /\ exc = None)

\* the chat model call failed on retrieved points and the request got its 500
C3_Witness ==
    /\ chat_pc = "responded"
    /\ ModelFailed
    /\ exc.msg = "openai request failed"
    /\ Len(relevant_docs) = 3
    /\ response.status = 500

----------------------------------------------------------------------------
(* rag_service.RAGService.__init__ and _ensure_collection *)

\* processes that start against the same Qdrant server
ProcessCount == 2

Processes == 1..ProcessCount

\* line 31
collection_name == "physical_ai_textbook"

VectorSize == 384

\* lines 41-47: the collection create_collection makes
NewCollection == [size |-> VectorSize, distance |-> "Cosine", points |-> 0]

\* what the server may hold when the first process starts
ServerStates ==
    LET old == [size |-> VectorSize, distance |-> "Cosine", points |-> 2]
        other == [size |-> 4, distance |-> "Dot", points |-> 1]
    IN  {[n \in {} |-> old],
         [n \in {"scratch"} |-> other],
         [n \in {collection_name} |-> old],
         [n \in {collection_name} |-> NewCollection],
         [n \in {collection_name, "scratch"} |->
             IF n = collection_name THEN old ELSE other]}

\* faulty variant of OnEnsureError: the exception leaves the constructor
EnsureReraises == "raised"

\* lines 49-50: what _ensure_collection does with an exception: it is logged
\* and the constructor goes on
OnEnsureError == "constructed"

\* line 40
MustCreate(names) == collection_name \notin names

NoNames == [listed |-> FALSE]

EnsureInit ==
    /\ server \in ServerStates
    /\ ens_pc = [p \in Processes |-> "init"]
    /\ collection_names = [p \in Processes |-> NoNames]
    /\ create_calls = [p \in Processes |-> 0]
    /\ ens_logged = [p \in Processes |-> <<>>]

EnsureIdle ==
    /\ server = [n \in {} |-> NewCollection]
    /\ ens_pc = <<>>
    /\ collection_names = <<>>
    /\ create_calls = <<>>
    /\ ens_logged = <<>>

\* lines 36-38: get_collections answers
ListCollections(p) ==
    /\ ens_pc[p] = "init"
    /\ collection_names' = [collection_names EXCEPT
                               ![p] = [listed |-> TRUE, names |-> DOMAIN server]]
    /\ ens_pc' = [ens_pc EXCEPT ![p] = "listed"]
    /\ UNCHANGED <<server, create_calls, ens_logged>>
    /\ UNCHANGED <<splitVars, indexVars, chatVars>>

\* lines 37, 49-50: get_collections raises
ListCollectionsFails(p) ==
    /\ ens_pc[p] = "init"
    /\ ens_logged' = [ens_logged EXCEPT ![p] = Append(@, "list failed")]
    /\ ens_pc' = [ens_pc EXCEPT ![p] = OnEnsureError]
    /\ UNCHANGED <<server, collection_names, create_calls>>
    /\ UNCHANGED <<splitVars, indexVars, chatVars>>

\* line 40: the name is among those listed, nothing to do
CollectionListed(p) ==
    /\ ens_pc[p] = "listed"
    /\ ~MustCreate(collection_names[p].names)
    /\ ens_pc' = [ens_pc EXCEPT ![p] = "constructed"]
    /\ UNCHANGED <<server, collection_names, create_calls, ens_logged>>
    /\ UNCHANGED <<splitVars, indexVars, chatVars>>

\* lines 40-48: create_collection makes the collection
CreateCollection(p) ==
    /\ ens_pc[p] = "listed"
    /\ MustCreate(collection_names[p].names)
    /\ collection_name \notin DOMAIN server
    /\ create_calls' = [create_calls EXCEPT ![p] = @ + 1]
    /\ server' = [n \in DOMAIN server \cup {collection_name} |->
                     IF n = collection_name THEN NewCollection ELSE server[n]]
    /\ ens_pc' = [ens_pc EXCEPT ![p] = "constructed"]
    /\ UNCHANGED <<collection_names, ens_logged>>
    /\ UNCHANGED <<splitVars, indexVars, chatVars>>

\* lines 41-47, 49-50: the server refuses to create a collection that exists
\* (another process made it after this one listed)
CreateCollectionConflicts(p) ==
    /\ ens_pc[p] = "listed"
    /\ MustCreate(collection_names[p].names)
    /\ collection_name \in DOMAIN server
    /\ create_calls' = [create_calls EXCEPT ![p] = @ + 1]
    /\ ens_logged' = [ens_logged EXCEPT ![p] = Append(@, "already exists")]
    /\ ens_pc' = [ens_pc EXCEPT ![p] = OnEnsureError]
    /\ UNCHANGED <<server, collection_names>>
    /\ UNCHANGED <<splitVars, indexVars, chatVars>>

\* lines 41-47, 49-50: the server cannot be reached for create_collection
CreateCollectionFails(p) ==
    /\ ens_pc[p] = "listed"
    /\ MustCreate(collection_names[p].names)
    /\ create_calls' = [create_calls EXCEPT ![p] = @ + 1]
    /\ ens_logged' = [ens_logged EXCEPT ![p] = Append(@, "create failed")]
    /\ ens_pc' = [ens_pc EXCEPT ![p] = OnEnsureError]
    /\ UNCHANGED <<server, collection_names>>
    /\ UNCHANGED <<splitVars, indexVars, chatVars>>

EnsureNext ==
    \E p \in Processes :
        \/ ListCollections(p)
        \/ ListCollectionsFails(p)
        \/ CollectionListed(p)
        \/ CreateCollection(p)
        \/ CreateCollectionConflicts(p)
        \/ CreateCollectionFails(p)

----------------------------------------------------------------------------
(* Properties of _ensure_collection *)

\* C9: _ensure_collection never raises, so the constructor completes; it
\* issues no create call when the listing shows the collection; a collection
\* that exists is never changed; and a process that met no failure leaves the
\* collection in place. A second call finds it listed and does nothing.
C9_EnsureStates ==
    \A p \in Processes :
        /\ ens_pc[p] \in {"init", "listed", "constructed"}
        /\ (collection_names[p] # NoNames
              /\ collection_name \in collection_names[p].names) =>
               create_calls[p] = 0
        /\ create_calls[p] <= 1
        /\ (ens_pc[p] = "constructed" /\ ens_logged[p] = <<>>) =>
               collection_name \in DOMAIN server

C9_EnsureSteps ==
    collection_name \in DOMAIN server =>
        /\ collection_name \in DOMAIN server'
        /\ server'[collection_name] = server[collection_name]

C9_EnsureCollectionIdempotent == []C9_EnsureStates /\ [][C9_EnsureSteps]_vars

\* two processes listed an empty server; one created the collection, the other
\* lost the race, and both are constructed
C9_Witness ==
    /\ \A p \in Processes : ens_pc[p] = "constructed"
    /\ create_calls[1] = 1 /\ create_calls[2] = 1
    /\ ens_logged[1] = <<>>
    /\ ens_logged[2] = <<"already exists">>
    /\ collection_name \in DOMAIN server

----------------------------------------------------------------------------
(* Specifications *)

InitSplit == SplitInit /\ IndexIdle /\ ChatIdle /\ EnsureIdle

SpecSplit == InitSplit /\ [][SplitNext]_vars

InitIndex == IndexInit /\ SplitIdle /\ ChatIdle /\ EnsureIdle

SpecIndex == InitIndex /\ [][IndexNext]_vars

InitChat == ChatInit /\ SplitIdle /\ IndexIdle /\ EnsureIdle

SpecChat == InitChat /\ [][ChatNext]_vars

InitEnsure == EnsureInit /\ SplitIdle /\ IndexIdle /\ ChatIdle

SpecEnsure == InitEnsure /\ [][EnsureNext]_vars

====
